---- MODULE Spec2Model ----
(***************************************************************************)
(* Model of src/main.py: the backup agent's scheduler loop (main_routine), *)
(* the capacity check (check_local), one backup cycle (backup, with its    *)
(* ExitStack of teardown callbacks) and the notification (notify).         *)
(*                                                                         *)
(* Sizes and the quota are counted in the same unit; the warning ratio is  *)
(* the rational warn_num / WarnDen, so that ratio >= 1 is size >= quota    *)
(* and ratio > backup_warning_ratio is size * WarnDen > warn_num * quota.  *)
(***************************************************************************)
EXTENDS Integers, Sequences, FiniteSets, TLC

\* ---------------------------------------------------------------- bounds
MaxQuota == 3
WarnDen == 2
MaxArchive == 2

\* ---------------------------------------------------------------- values
None == "None"

\* variant: the role flag is not rendered
MentionStr_NoRole(m) == <<"<@", "", m.id, ">">>

\* Mention (main.py 22-28): the rendered tag, as the pieces of the f-string.
MentionStr(m) == <<"<@", IF m.is_role THEN "&" ELSE "", m.id, ">">>

\* str.join(', ', map(str, mentions))
JoinMentions(ms) ==
  LET J[i \in 0..Len(ms)] ==
        IF i = 0 THEN <<>>
        ELSE IF i = 1 THEN MentionStr(ms[1])
        ELSE J[i - 1] \o <<", ">> \o MentionStr(ms[i])
  IN J[Len(ms)]

\* get_mentions (main.py 143-147)
get_mentions(ms) == IF Len(ms) = 0 THEN <<>> ELSE <<"\n">> \o JoinMentions(ms)

MentionLists ==
  { <<>>,
    << [id |-> "123", is_role |-> FALSE], [id |-> "456", is_role |-> TRUE] >> }

\* Config (main.py 31-48), the fields the loop and the cycle read.
Configs ==
  [ webhook : {"", "url"},
    server_directory : {<<"srv", "mc">>},
    server_before_save_command : {"", "save-off"},
    server_after_save_command : {"", "save-on"},
    backup_allowed_gigabytes : 1..MaxQuota,
    warn_num : 1..(WarnDen - 1),
    warning_mentions : MentionLists,
    error_mentions : MentionLists ]

VARIABLES
  config,        \* the Config record, read-only
  size,          \* total size of the files under backup_directory
  pc,            \* position of main_routine / backup
  warning,       \* main_routine's warning
  error,         \* main_routine's error
  archive_name,  \* main_routine's archive_name
  bname,         \* backup's local archive_name ("" before line 75)
  local_error,   \* the error check_local returned in this cycle
  ret,           \* value of the return statement backup executed inside the with block
  result,        \* the pair backup returned to main_routine in this cycle, if it did
  exc,           \* exception in flight ("none" when there is none)
  ssh,           \* state of this cycle's SSHClient
  open_sessions, \* number of connected, unclosed SSH sessions
  stack,         \* ExitStack callbacks, in registration order
  trace,         \* calls made in this cycle, in order: <<operation, outcome>>
  message,       \* the message built for this cycle's notification
  notified,      \* messages handed to notify() so far in this cycle
  slept,         \* the Config field the last sleep() was given
  backup_dir,    \* what os.walk finds at backup_directory: "ok", "missing", "denied"
  quota_hit,     \* size of the directory when check_local first returned the
                 \* quota error, -1 before that
  latest,        \* the latest timestamp used for a name, and the size of the
                 \* local file of that name (0 when there is none)
  remote_archive, \* the file the archive command writes: "absent" or "present"
  paths          \* the remote path the archive, transfer and delete of this
                 \* cycle were given (<<>> when not issued)

vars == <<config, size, pc, warning, error, archive_name, local_error, bname, ret,
          result, exc, ssh, open_sessions, stack, trace, message, notified, slept,
          backup_dir, quota_hit, latest, remote_archive, paths>>

NoPaths == [tar |-> <<>>, get |-> <<>>, rm |-> <<>>]

NoRet == [name |-> "", error |-> "noreturn"]

Init ==
  /\ config \in Configs
  /\ backup_dir \in {"ok", "missing", "denied"}
  /\ size \in IF backup_dir = "missing" THEN {0} ELSE 0..MaxQuota
  /\ pc = "start"
  /\ warning = None
  /\ error = None
  /\ archive_name = ""
  /\ local_error = None
  /\ bname = ""
  /\ ret = NoRet
  /\ result = NoRet
  /\ exc = "none"
  /\ ssh = "absent"
  /\ open_sessions = 0
  /\ stack = <<>>
  /\ trace = <<>>
  /\ message = <<>>
  /\ notified = <<>>
  /\ slept = "none"
  /\ quota_hit = -1
  /\ latest = [name |-> "", size |-> 0]
  /\ remote_archive = "absent"
  /\ paths = NoPaths

\* ------------------------------------------------------------ check_local
\* variant: the quota counts as reached only above it (ratio > 1)
RatioReached_Strict(sz, cfg) == sz > cfg.backup_allowed_gigabytes

\* ratio >= 1 (main.py 121-122), ratio = (size / 1024**3) / backup_allowed_gigabytes
RatioReached(sz, cfg) == sz >= cfg.backup_allowed_gigabytes

\* ratio > config.backup_warning_ratio (main.py 126)
RatioOverWarning(sz, cfg) == sz * WarnDen > cfg.warn_num * cfg.backup_allowed_gigabytes

QuotaError == "Backup directory has reached the maximum size"
ReadError == "Could not read backup directory"
RatioWarning == "Backup folder has ratio"

\* get_size (main.py 103-111): the sum of the sizes of the files os.walk
\* yields. os.walk is called without onerror, so a top directory that cannot
\* be listed yields nothing and the sum is 0.
get_size(sz, dir) == IF dir = "ok" THEN sz ELSE 0

\* os.path.getsize (main.py 109) can raise OSError for a file os.walk listed
GetSizeOutcomes(sz, dir) == IF dir = "ok" /\ sz > 0 THEN {"ok", "OSError"} ELSE {"ok"}

\* check_local (main.py 114-129); sz is the sum and read the outcome of get_size.
check_local(sz, read, cfg) ==
  IF read = "OSError" THEN [warning |-> None, error |-> ReadError]
  ELSE IF RatioReached(sz, cfg) THEN [warning |-> None, error |-> QuotaError]
  ELSE [warning |-> IF RatioOverWarning(sz, cfg) THEN RatioWarning ELSE None,
        error |-> None]

\* ------------------------------------------------------------------ notify
StartMessage == <<"===========\n**Bot started**\n===========">>

\* Outcomes of notify (main.py 132-140): nothing is posted for an empty webhook.
NotifyOutcomes(cfg) == IF cfg.webhook = "" THEN {"ok"} ELSE {"ok", "ClientError"}

\* await notify(message, config.webhook), then continue at okPc
Notify(msg, res, okPc) ==
  /\ notified' = Append(notified, msg)
  /\ IF res = "ok"
       THEN pc' = okPc /\ exc' = exc
       ELSE pc' = "crashed" /\ exc' = res

\* main.py 151
Startup ==
  /\ pc = "start"
  /\ \E res \in NotifyOutcomes(config) : Notify(StartMessage, res, "check")
  /\ UNCHANGED <<config, backup_dir, quota_hit, latest, remote_archive, paths,
                 size, warning, error, archive_name, local_error, bname, ret,
                 result, ssh, open_sessions, stack, trace, message, slept>>

\* variant: backup() is called whatever check_local returned
CheckLocal_AlwaysBackup ==
  /\ pc = "check"
  /\ \E read \in GetSizeOutcomes(size, backup_dir) :
       LET r == check_local(get_size(size, backup_dir), read, config) IN
         /\ warning' = r.warning
         /\ error' = r.error
         /\ local_error' = r.error
         /\ quota_hit' = IF r.error = QuotaError /\ quota_hit = -1 THEN size ELSE quota_hit
         /\ pc' = "backup"
  /\ archive_name' = ""
  /\ trace' = <<>>
  /\ notified' = <<>>
  /\ message' = <<>>
  /\ result' = NoRet
  /\ UNCHANGED <<config, backup_dir, latest, remote_archive, paths,
                 size, bname, ret, exc, ssh, open_sessions, stack, slept>>

\* main.py 154-157: a new iteration of the loop begins
CheckLocal ==
  /\ pc = "check"
  /\ \E read \in GetSizeOutcomes(size, backup_dir) :
       LET r == check_local(get_size(size, backup_dir), read, config) IN
         /\ warning' = r.warning
         /\ error' = r.error
         /\ local_error' = r.error
         /\ quota_hit' = IF r.error = QuotaError /\ quota_hit = -1 THEN size ELSE quota_hit
         /\ pc' = IF r.error = None THEN "backup" ELSE "message"
  /\ archive_name' = ""
  /\ trace' = <<>>
  /\ notified' = <<>>
  /\ message' = <<>>
  /\ result' = NoRet
  /\ UNCHANGED <<config, backup_dir, latest, remote_archive, paths,
                 size, bname, ret, exc, ssh, open_sessions, stack, slept>>

\* ------------------------------------------------------------------ backup
ConnectError == "Error while connecting"
ListingError == "Could not open server directory"
BeforeError == "Error while executing before_save_command"
CompressError == "Could not compress backup archive"
AfterError == "Error while executing after_save_command"
CopyError == "Could not copy archive to the local directory"

ArchiveNames == {"prefix-T1.tar.gz", "prefix-T2.tar.gz"}

\* Outcomes of get_command_outputs (main.py 51-53): empty stderr, non-empty
\* stderr, exec_command raising, decode raising.
CommandOutcomes == {"ok", "stderr", "SSHException", "UnicodeDecodeError"}

\* variant: ssh.close is not registered on the ExitStack
BackupBegin_NoClose ==
  /\ pc = "backup"
  /\ ssh' = "unconnected"
  /\ stack' = <<>>
  /\ bname' = ""
  /\ ret' = NoRet
  /\ exc' = "none"
  /\ pc' = "connect"
  /\ paths' = NoPaths
  /\ UNCHANGED <<config, backup_dir, quota_hit, latest, remote_archive,
                 size, warning, error, archive_name, local_error, result,
                 open_sessions, trace, message, notified, slept>>

\* main.py 57-61
BackupBegin ==
  /\ pc = "backup"
  /\ ssh' = "unconnected"
  /\ stack' = <<"ssh.close">>
  /\ bname' = ""
  /\ ret' = NoRet
  /\ exc' = "none"
  /\ pc' = "connect"
  /\ paths' = NoPaths
  /\ UNCHANGED <<config, backup_dir, quota_hit, latest, remote_archive,
                 size, warning, error, archive_name, local_error, result,
                 open_sessions, trace, message, notified, slept>>

\* variant: the exception of ssh.connect is swallowed and the cycle goes on
Connect_GoesOn ==
  /\ pc = "connect"
  /\ \E res \in {"ok", "fail"} :
       /\ trace' = Append(trace, <<"connect", res>>)
       /\ pc' = "listing"
       /\ ret' = ret
       /\ IF res = "ok"
            THEN ssh' = "connected" /\ open_sessions' = open_sessions + 1
            ELSE UNCHANGED <<ssh, open_sessions>>
  /\ UNCHANGED <<config, backup_dir, quota_hit, latest, remote_archive, paths,
                 size, warning, error, archive_name, local_error, bname, result,
                 exc, stack, message, notified, slept>>

\* main.py 63-68
Connect ==
  /\ pc = "connect"
  /\ \E res \in {"ok", "fail"} :
       /\ trace' = Append(trace, <<"connect", res>>)
       /\ IF res = "ok"
            THEN /\ ssh' = "connected"
                 /\ open_sessions' = open_sessions + 1
                 /\ pc' = "listing"
                 /\ ret' = ret
            ELSE /\ ret' = [name |-> "", error |-> ConnectError]
                 /\ pc' = "unwind"
                 /\ UNCHANGED <<ssh, open_sessions>>
  /\ UNCHANGED <<config, backup_dir, quota_hit, latest, remote_archive, paths,
                 size, warning, error, archive_name, local_error, bname, result,
                 exc, stack, message, notified, slept>>

\* variant: a non-empty stderr is not checked
Command_StderrIgnored(op, res, errText, okPc) ==
  /\ trace' = Append(trace, <<op, res>>)
  /\ IF res \in {"ok", "stderr"}
       THEN pc' = okPc /\ UNCHANGED <<ret, exc>>
       ELSE pc' = "unwind" /\ exc' = res /\ ret' = ret

\* out, err = get_command_outputs(ssh, ...); if len(err) > 0: return '', Error(...)
Command(op, res, errText, okPc) ==
  /\ trace' = Append(trace, <<op, res>>)
  /\ CASE res = "ok" -> pc' = okPc /\ UNCHANGED <<ret, exc>>
       [] res = "stderr" ->
            pc' = "unwind" /\ ret' = [name |-> "", error |-> errText] /\ exc' = exc
       [] OTHER -> pc' = "unwind" /\ exc' = res /\ ret' = ret

\* variant: the delete callback is registered before the listing is checked
Listing_RegistersFirst ==
  /\ pc = "listing"
  /\ stack' = Append(stack, "rm")
  /\ \E res \in CommandOutcomes : Command("ls", res, ListingError, "register")
  /\ UNCHANGED <<config, backup_dir, quota_hit, latest, remote_archive, paths,
                 size, warning, error, archive_name, local_error, bname, result,
                 ssh, open_sessions, message, notified, slept>>

\* main.py 70-73
Listing ==
  /\ pc = "listing"
  /\ \E res \in CommandOutcomes : Command("ls", res, ListingError, "register")
  /\ UNCHANGED <<config, backup_dir, quota_hit, latest, remote_archive, paths,
                 size, warning, error, archive_name, local_error, bname, result,
                 ssh, open_sessions, stack, message, notified, slept>>

\* variant: the delete callback is not registered
RegisterCleanup_NoCallback ==
  /\ pc = "register"
  /\ bname' \in ArchiveNames
  /\ stack' = stack
  /\ pc' = IF config.server_before_save_command # "" THEN "before" ELSE "tar"
  /\ latest' = IF bname' = latest.name THEN latest ELSE [name |-> bname', size |-> 0]
  /\ remote_archive' = IF bname' = latest.name THEN remote_archive ELSE "absent"
  /\ UNCHANGED <<config, backup_dir, quota_hit, paths,
                 size, warning, error, archive_name, local_error, ret, result,
                 exc, ssh, open_sessions, trace, message, notified, slept>>

\* main.py 75-77. The name has minute resolution: a name equal to the latest
\* one is the same minute, and the files of that name are still the same files.
RegisterCleanup ==
  /\ pc = "register"
  /\ bname' \in ArchiveNames
  /\ stack' = Append(stack, "rm")
  /\ pc' = IF config.server_before_save_command # "" THEN "before" ELSE "tar"
  /\ latest' = IF bname' = latest.name THEN latest ELSE [name |-> bname', size |-> 0]
  /\ remote_archive' = IF bname' = latest.name THEN remote_archive ELSE "absent"
  /\ UNCHANGED <<config, backup_dir, quota_hit, paths,
                 size, warning, error, archive_name, local_error, ret, result,
                 exc, ssh, open_sessions, trace, message, notified, slept>>

\* main.py 77-80
PreHook ==
  /\ pc = "before"
  /\ \E res \in CommandOutcomes : Command("before", res, BeforeError, "tar")
  /\ UNCHANGED <<config, backup_dir, quota_hit, latest, remote_archive, paths,
                 size, warning, error, archive_name, local_error, bname, result,
                 ssh, open_sessions, stack, message, notified, slept>>

\* a path of the remote host with its ".." components resolved
Resolve(path) ==
  LET R[i \in 0..Len(path)] ==
        IF i = 0 THEN <<>>
        ELSE IF path[i] = ".."
               THEN (IF R[i - 1] = <<>> THEN <<>> ELSE SubSeq(R[i - 1], 1, Len(R[i - 1]) - 1))
               ELSE Append(R[i - 1], path[i])
  IN R[Len(path)]

\* cd {server_directory}/../ (main.py 70), the directory the commands run in
CdDirectory(cfg) == cfg.server_directory \o <<"..">>

\* tar -czf {archive_name} after the cd (main.py 83)
ArchivePath(cfg, name) == Resolve(CdDirectory(cfg) \o <<name>>)

\* rm {archive_name} after the cd (main.py 76)
CleanupPath(cfg, name) == Resolve(CdDirectory(cfg) \o <<name>>)

\* {server_directory}/{archive_name} (main.py 96)
TransferPath(cfg, name) == Resolve(cfg.server_directory \o <<name>>)

\* main.py 82-87; a tar that was run and failed may have written the file
Archive ==
  /\ pc = "tar"
  /\ \E res \in CommandOutcomes :
       /\ Command("tar", res, CompressError,
                  IF config.server_after_save_command # "" THEN "after" ELSE "scp")
       /\ remote_archive' \in
            CASE res = "ok" -> {"present"}
              [] res = "SSHException" -> {remote_archive}
              [] OTHER -> {remote_archive, "present"}
  /\ paths' = [paths EXCEPT !.tar = ArchivePath(config, bname)]
  /\ UNCHANGED <<config, backup_dir, quota_hit, latest,
                 size, warning, error, archive_name, local_error, bname, result,
                 ssh, open_sessions, stack, message, notified, slept>>

\* main.py 87-90
PostHook ==
  /\ pc = "after"
  /\ \E res \in CommandOutcomes : Command("after", res, AfterError, "scp")
  /\ UNCHANGED <<config, backup_dir, quota_hit, latest, remote_archive, paths,
                 size, warning, error, archive_name, local_error, bname, result,
                 ssh, open_sessions, stack, message, notified, slept>>

\* main.py 92-93
OpenScp ==
  /\ pc = "scp"
  /\ stack' = Append(stack, "scp.close")
  /\ pc' = "get"
  /\ UNCHANGED <<config, backup_dir, quota_hit, latest, remote_archive, paths,
                 size, warning, error, archive_name, local_error, bname, ret,
                 result, exc, ssh, open_sessions, trace, message, notified, slept>>

\* Outcomes of scp.get: a directory without permissions cannot be written
TransferOutcomes(dir) ==
  IF dir = "denied" THEN {"fail", "SSHException"} ELSE {"ok", "fail", "SSHException"}

\* Sizes of the local file scp.get leaves (-1: it did not open the file); a
\* failed transfer may leave a partial file
WrittenSizes(res) == IF res = "ok" THEN 1..MaxArchive ELSE (-1)..MaxArchive

\* main.py 95-98: scp.get writes backup_directory/{archive_name}, replacing a
\* file of that name; an exception other than SCPException / OSError is not
\* caught. When backup_directory is not a directory nothing is put under it.
Transfer ==
  /\ pc = "get"
  /\ \E res \in TransferOutcomes(backup_dir) :
       /\ trace' = Append(trace, <<"scp.get", res>>)
       /\ pc' = "unwind"
       /\ \E a \in WrittenSizes(res) :
            IF a >= 0 /\ backup_dir = "ok"
              THEN /\ size' = size - latest.size + a
                   /\ latest' = [latest EXCEPT !.size = a]
              ELSE UNCHANGED <<size, latest>>
       /\ CASE res = "ok" -> UNCHANGED <<ret, exc>>
            [] res = "fail" ->
                 /\ ret' = [name |-> "", error |-> CopyError]
                 /\ exc' = exc
            [] OTHER ->
                 /\ exc' = res
                 /\ ret' = ret
  /\ paths' = [paths EXCEPT !.get = TransferPath(config, bname)]
  /\ UNCHANGED <<config, backup_dir, quota_hit, remote_archive,
                 warning, error, archive_name, local_error, bname, result, ssh,
                 open_sessions, stack, message, notified, slept>>

\* ----------------------------------------- leaving the with block (ExitStack)
\* variant: callbacks are called in registration order
Cur_First(s) == 1

\* ExitStack (main.py 57) calls the callback registered last first
Cur(s) == Len(s)
Top(s) == s[Cur(s)]
Pop(s) == [i \in 1..(Len(s) - 1) |-> IF i < Cur(s) THEN s[i] ELSE s[i + 1]]

\* the callback registered at main.py 93
ScpClose ==
  /\ pc = "unwind"
  /\ stack # <<>> /\ Top(stack) = "scp.close"
  /\ trace' = Append(trace, <<"scp.close", "ok">>)
  /\ stack' = Pop(stack)
  /\ UNCHANGED <<config, backup_dir, quota_hit, latest, remote_archive, paths,
                 size, pc, warning, error, archive_name, local_error, bname, ret,
                 result, exc, ssh, open_sessions, message, notified, slept>>

\* Outcomes of ssh.exec_command(rm) at main.py 76, whose streams are not read
\* and which ssh.close follows at once: the command ran and removed the file
\* ("ok"), ran and failed ("stderr"), was sent and had not run when the
\* session was closed ("cut"), or exec_command raised.
CleanupOutcomes == {"ok", "stderr", "cut", "SSHException"}

\* the callback registered at main.py 76: ssh.exec_command(rm); an exception
\* it raises replaces the one in flight and the remaining callbacks still run
RemoteCleanup ==
  /\ pc = "unwind"
  /\ stack # <<>> /\ Top(stack) = "rm"
  /\ \E res \in CleanupOutcomes :
       /\ trace' = Append(trace, <<"rm", res>>)
       /\ exc' = IF res = "SSHException" THEN res ELSE exc
       /\ remote_archive' = IF res = "ok" THEN "absent" ELSE remote_archive
  /\ paths' = [paths EXCEPT !.rm = CleanupPath(config, bname)]
  /\ stack' = Pop(stack)
  /\ UNCHANGED <<config, backup_dir, quota_hit, latest,
                 size, pc, warning, error, archive_name, local_error, bname, ret,
                 result, ssh, open_sessions, message, notified, slept>>

\* the callback registered at main.py 61
SshClose ==
  /\ pc = "unwind"
  /\ stack # <<>> /\ Top(stack) = "ssh.close"
  /\ trace' = Append(trace, <<"ssh.close", "ok">>)
  /\ open_sessions' = IF ssh = "connected" THEN open_sessions - 1 ELSE open_sessions
  /\ ssh' = "closed"
  /\ stack' = Pop(stack)
  /\ UNCHANGED <<config, backup_dir, quota_hit, latest, remote_archive, paths,
                 size, pc, warning, error, archive_name, local_error, bname, ret,
                 result, exc, message, notified, slept>>

\* variant: main_routine does not take the name backup() returned
BackupExit_NameLost ==
  /\ pc = "unwind"
  /\ stack = <<>>
  /\ IF exc # "none"
       THEN pc' = "crashed" /\ UNCHANGED <<result, archive_name, error>>
       ELSE LET r == IF ret = NoRet THEN [name |-> bname, error |-> None] ELSE ret IN
              /\ result' = r
              /\ archive_name' = archive_name
              /\ error' = r.error
              /\ pc' = "message"
  /\ UNCHANGED <<config, backup_dir, quota_hit, latest, remote_archive, paths,
                 size, warning, local_error, bname, ret, exc, ssh,
                 open_sessions, stack, trace, message, notified, slept>>

\* backup is left: by the exception in flight, by the return statement that
\* was executed inside the with block, or by main.py 100; main.py 158 assigns
BackupExit ==
  /\ pc = "unwind"
  /\ stack = <<>>
  /\ IF exc # "none"
       THEN pc' = "crashed" /\ UNCHANGED <<result, archive_name, error>>
       ELSE LET r == IF ret = NoRet THEN [name |-> bname, error |-> None] ELSE ret IN
              /\ result' = r
              /\ archive_name' = r.name
              /\ error' = r.error
              /\ pc' = "message"
  /\ UNCHANGED <<config, backup_dir, quota_hit, latest, remote_archive, paths,
                 size, warning, local_error, bname, ret, exc, ssh,
                 open_sessions, stack, trace, message, notified, slept>>

\* ------------------------------------------------------------ main_routine
\* The character U+0060 of the f-string at main.py 161 (a TLA+ string cannot
\* hold it).
Backtick == "[U+0060]"

\* variant: the warning block is appended to the success message only
BuildMessage_WarningOnSuccessOnly(name, err, warn, cfg) ==
  IF err = None
    THEN <<"Successful backup! Archive: ", Backtick, name, Backtick>>
         \o (IF warn # None
               THEN <<"\n\n**WARNING**">> \o get_mentions(cfg.warning_mentions)
                    \o <<"\n", warn>>
               ELSE <<>>)
    ELSE <<"**ERROR**">> \o get_mentions(cfg.error_mentions) \o <<"\n", err>>

\* main.py 160-166
BuildMessage(name, err, warn, cfg) ==
  (IF err = None
     THEN <<"Successful backup! Archive: ", Backtick, name, Backtick>>
     ELSE <<"**ERROR**">> \o get_mentions(cfg.error_mentions) \o <<"\n", err>>)
  \o (IF warn # None
        THEN <<"\n\n**WARNING**">> \o get_mentions(cfg.warning_mentions) \o <<"\n", warn>>
        ELSE <<>>)

\* main.py 160-168
NotifyCycle ==
  /\ pc = "message"
  /\ LET m == BuildMessage(archive_name, error, warning, config) IN
       /\ message' = m
       /\ \E res \in NotifyOutcomes(config) : Notify(m, res, "sleep")
  /\ UNCHANGED <<config, backup_dir, quota_hit, latest, remote_archive, paths,
                 size, warning, error, archive_name, local_error, bname, ret,
                 result, ssh, open_sessions, stack, trace, slept>>

\* variant: the two intervals are exchanged
Interval_Swapped(err) == IF err = None THEN "error_iteration_time" ELSE "iteration_time"

\* the interval expression of main.py 169
Interval(err) == IF err = None THEN "iteration_time" ELSE "error_iteration_time"

\* main.py 169, and back to the top of the loop
Sleep ==
  /\ pc = "sleep"
  /\ slept' = Interval(error)
  /\ pc' = "check"
  /\ UNCHANGED <<config, backup_dir, quota_hit, latest, remote_archive, paths,
                 size, warning, error, archive_name, local_error, bname, ret,
                 result, exc, ssh, open_sessions, stack, trace, message, notified>>

Next ==
  \/ Startup
  \/ CheckLocal
  \/ BackupBegin
  \/ Connect
  \/ Listing
  \/ RegisterCleanup
  \/ PreHook
  \/ Archive
  \/ PostHook
  \/ OpenScp
  \/ Transfer
  \/ ScpClose
  \/ RemoteCleanup
  \/ SshClose
  \/ BackupExit
  \/ NotifyCycle
  \/ Sleep

Spec == Init /\ [][Next]_vars

TypeOK ==
  /\ config \in Configs
  /\ size \in 0..(MaxQuota + MaxArchive)
  /\ pc \in {"start", "check", "backup", "connect", "listing", "register", "before",
             "tar", "after", "scp", "get", "unwind", "message", "sleep", "crashed"}
  /\ ssh \in {"absent", "unconnected", "connected", "closed"}
  /\ open_sessions \in 0..1
  /\ slept \in {"none", "iteration_time", "error_iteration_time"}

\* ------------------------------------------------------ reading the trace
Count(op) == Cardinality({i \in 1..Len(trace) : trace[i][1] = op})
Did(op, res) == \E i \in 1..Len(trace) : trace[i] = <<op, res>>
Called(op) == Count(op) > 0

\* backup() was called in this cycle and has been left, by return or by raise
BackupReturned == result # NoRet
BackupRaised == pc = "crashed" /\ exc \in {"SSHException", "UnicodeDecodeError"}
BackupLeft == BackupReturned \/ BackupRaised

\* a step after the registration of the cleanup failed
FailedAfterRegister ==
  \E i \in 1..Len(trace) :
    trace[i][1] \in {"before", "tar", "after", "scp.get"} /\ trace[i][2] # "ok"

\* C1: a cycle in which the pre-hook, the archive command, the post-hook or
\* the transfer failed has issued the remote delete command exactly once and
\* closed the SSH session exactly once by the time backup() is left.
C1_CleanupAndCloseOnce ==
  (BackupLeft /\ FailedAfterRegister) => (Count("rm") = 1 /\ Count("ssh.close") = 1)

C1_Witness ==
  /\ BackupReturned
  /\ Did("scp.get", "fail")
  /\ Count("rm") = 1
  /\ Count("ssh.close") = 1

\* the fixed order of the work steps of one cycle
WorkOps == {"connect", "ls", "before", "tar", "after", "scp.get"}
IsWork(e) == e[1] \in WorkOps
FixedSequence(cfg) ==
  <<"connect", "ls">>
  \o (IF cfg.server_before_save_command # "" THEN <<"before">> ELSE <<>>)
  \o <<"tar">>
  \o (IF cfg.server_after_save_command # "" THEN <<"after">> ELSE <<>>)
  \o <<"scp.get">>

\* C2: the work steps issued in a cycle are a prefix of connect, listing,
\* pre-hook (if configured), archive, post-hook (if configured), transfer, and
\* only the last step issued can have failed: nothing runs after a failure.
C2_PrefixOfFixedSequence ==
  LET w == SelectSeq(trace, IsWork)
      f == FixedSequence(config)
  IN /\ Len(w) <= Len(f)
     /\ \A i \in 1..Len(w) : w[i][1] = f[i]
     /\ \A i \in 1..(Len(w) - 1) : w[i][2] = "ok"

C2_Witness ==
  /\ BackupReturned
  /\ Did("before", "stderr")
  /\ ~Called("tar")
  /\ ~Called("scp.get")

\* C3: after a failed connect no remote command is sent in that cycle (only
\* the close of the unconnected client follows), and the sleep that ends the
\* cycle is given error_iteration_time.
C3_ConnectFailure ==
  Did("connect", "fail") =>
    /\ \A i \in 1..Len(trace) : trace[i][1] \in {"connect", "ssh.close"}
    /\ BackupReturned => result = [name |-> "", error |-> ConnectError]
    /\ pc = "check" => slept = "error_iteration_time"

C3_Witness ==
  /\ Did("connect", "fail")
  /\ pc = "check"
  /\ slept = "error_iteration_time"
  /\ trace = << <<"connect", "fail">>, <<"ssh.close", "ok">> >>

Before(a, b) ==
  \A i, j \in 1..Len(trace) : (trace[i][1] = a /\ trace[j][1] = b) => i < j

\* C4: teardown order is sub-channel close, then remote delete, then session
\* close: each registered teardown action has run once backup() is left, and
\* the session is never closed while the delete is still to be issued.
C4_TeardownOrder ==
  /\ Before("scp.close", "rm")
  /\ Before("rm", "ssh.close")
  /\ Before("scp.close", "ssh.close")
  /\ (pc = "unwind" /\ ssh = "closed") => stack = <<>>
  /\ BackupLeft =>
       /\ Called("scp.get") => Count("scp.close") = 1
       /\ Did("ls", "ok") => Count("rm") = 1
       /\ Count("ssh.close") = 1

C4_Witness ==
  /\ BackupReturned
  /\ \E i \in 1..(Len(trace) - 2) :
       /\ trace[i][1] = "scp.close"
       /\ trace[i + 1][1] = "rm"
       /\ trace[i + 2][1] = "ssh.close"

\* C5: backup() starts with a new, unconnected client, at most one session is
\* open at any time, the session is closed when backup() is left, and none is
\* open while the loop checks, notifies or sleeps.
C5_SessionClosedEveryCycle ==
  /\ open_sessions <= 1
  /\ pc = "connect" => (ssh = "unconnected" /\ open_sessions = 0)
  /\ BackupLeft => ssh = "closed"
  /\ pc \in {"start", "check", "backup", "message", "sleep", "crashed"} => open_sessions = 0

C5_Witness ==
  /\ pc = "sleep"
  /\ Did("connect", "ok")
  /\ ssh = "closed"
  /\ open_sessions = 0

\* check_local has just returned, for the current size
JustChecked == pc = "backup" \/ (pc = "message" /\ local_error # None)

\* C6: with ratio = size / quota, size the sum get_size returned, check_local returns
\* an error and no warning when ratio >= 1, a warning and no error when
\* warningRatio < ratio < 1, and neither when ratio <= warningRatio.
C6_CheckLocalCases ==
  LET q == config.backup_allowed_gigabytes
      n == config.warn_num
      sz == get_size(size, backup_dir)
  IN (JustChecked /\ local_error # ReadError) =>
       /\ sz >= q => (local_error # None /\ warning = None)
       /\ (sz * WarnDen > n * q /\ sz < q) => (warning # None /\ local_error = None)
       /\ sz * WarnDen <= n * q => (warning = None /\ local_error = None)

C6_Witness ==
  /\ pc = "backup"
  /\ warning = RatioWarning
  /\ size < config.backup_allowed_gigabytes

\* the iteration is past line 158
PastBackup == pc \in {"message", "sleep"}

\* C7: backup() is run in a cycle exactly when check_local returned no error;
\* after an error of check_local no session is opened and no remote call is
\* made, and that error is the one reported and used for the sleep.
C7_BackupIffNoLocalError ==
  /\ PastBackup => (BackupReturned <=> local_error = None)
  /\ local_error # None =>
       /\ pc \in {"message", "sleep", "check", "crashed"}
       /\ trace = <<>>
       /\ ~BackupReturned
       /\ error = local_error
       /\ pc = "sleep" => message = BuildMessage("", local_error, None, config)
       /\ pc = "check" => slept = "error_iteration_time"

C7_Witness ==
  /\ pc = "sleep"
  /\ local_error = QuotaError
  /\ trace = <<>>

\* C8: the sleep is given iteration_time exactly when neither check_local nor
\* backup() returned an error in the cycle, and error_iteration_time
\* otherwise; a warning does not select the error interval.
C8_IntervalByError ==
  (pc = "check" /\ slept # "none") =>
    /\ slept = "iteration_time" <=>
         (local_error = None /\ BackupReturned /\ result.error = None)
    /\ slept = "error_iteration_time" <=>
         (local_error # None \/ (BackupReturned /\ result.error # None))

C8_Witness ==
  /\ pc = "check"
  /\ slept = "iteration_time"
  /\ warning # None

WarningBlock(cfg, warn) ==
  <<"\n\n**WARNING**">> \o get_mentions(cfg.warning_mentions) \o <<"\n", warn>>
EndsWith(m, b) ==
  Len(m) >= Len(b) /\ SubSeq(m, Len(m) - Len(b) + 1, Len(m)) = b

\* C9: when check_local returned a warning the backup is attempted in that
\* cycle, and the message handed to notify ends with the warning block, after
\* the success line or after the error block.
C9_WarningIndependent ==
  (warning # None /\ PastBackup) =>
    /\ Called("connect")
    /\ BackupReturned
    /\ pc = "sleep" =>
         /\ notified = <<message>>
         /\ EndsWith(message, WarningBlock(config, warning))
         /\ error # None => message[1] = "**ERROR**"
         /\ error = None => message[1] = "Successful backup! Archive: "

C9_Witness ==
  /\ pc = "sleep"
  /\ warning # None
  /\ error # None
  /\ message[1] = "**ERROR**"
  /\ EndsWith(message, WarningBlock(config, warning))

\* C10: no failure inside a cycle leaves backup() as an exception; each is
\* returned as an error value, so the loop goes on to notify and sleep.
C10_NoExceptionEscapes == ~BackupRaised

\* C11: a failed delivery of a notification does not end the loop.
C11_NotifyFailureNotFatal == ~(pc = "crashed" /\ exc = "ClientError")

\* the text a sequence of pieces stands for
Str(m) ==
  LET S[i \in 0..Len(m)] == IF i = 0 THEN "" ELSE S[i - 1] \o m[i]
  IN S[Len(m)]

\* a cycle in which every step succeeded and check_local gave no warning
SuccessNoWarning == pc = "sleep" /\ error = None /\ warning = None

\* C14 as stated: after a successful cycle without warning the message is
\* "Successful backup! Archive: " followed by the name and nothing else.
C14_MessageIsPlainName ==
  SuccessNoWarning => Str(message) = "Successful backup! Archive: " \o result.name

\* C14 amended: after a successful cycle without warning the message is
\* "Successful backup! Archive: " followed by the name backup() returned, the
\* name standing between two U+0060 characters.
C14_MessageQuotesName ==
  SuccessNoWarning =>
    /\ result.name \in ArchiveNames
    /\ notified = <<message>>
    /\ Str(message) = "Successful backup! Archive: " \o Backtick \o result.name \o Backtick

C14_Witness ==
  /\ SuccessNoWarning
  /\ Did("scp.get", "ok")
  /\ Str(message) = "Successful backup! Archive: [U+0060]prefix-T1.tar.gz[U+0060]"

Tag(m) == IF m.is_role THEN "<@&" \o m.id \o ">" ELSE "<@" \o m.id \o ">"
TagsFrom(ms, i) ==
  LET T[k \in i..(Len(ms) + 1)] ==
        IF k > Len(ms) THEN "" ELSE ", " \o Tag(ms[k]) \o T[k + 1]
  IN T[i]
ExpectedMentions(ms) == IF ms = <<>> THEN "" ELSE "\n" \o Tag(ms[1]) \o TagsFrom(ms, 2)

\* C15: a mention renders as <@id>, a role mention as <@&id>; get_mentions of
\* the empty list is the empty string and of a non-empty list the tags in
\* configuration order joined by ', '; the error message carries that text.
C15_MentionRendering ==
  /\ \A ms \in {config.error_mentions, config.warning_mentions} :
       /\ \A i \in 1..Len(ms) : Str(MentionStr(ms[i])) = Tag(ms[i])
       /\ Str(get_mentions(ms)) = ExpectedMentions(ms)
  /\ (pc = "sleep" /\ error # None /\ warning = None) =>
       Str(message) = "**ERROR**" \o ExpectedMentions(config.error_mentions) \o "\n" \o error

C15_Witness ==
  /\ pc = "sleep"
  /\ error = ConnectError
  /\ warning = None
  /\ Str(message) = "**ERROR**\n<@123>, <@&456>\nError while connecting"

\* connect, listing, the configured hooks, archive and transfer all succeeded
AllStepsOk ==
  LET w == SelectSeq(trace, IsWork)
  IN /\ Len(w) = Len(FixedSequence(config))
     /\ \A i \in 1..Len(w) : w[i][2] = "ok"

\* C18: backup() always ends by returning (name, no error) or ("", error),
\* the first exactly when every step of the cycle succeeded.
C18_TwoShapes ==
  BackupLeft =>
    /\ BackupReturned
    /\ \/ (result.name # "" /\ result.error = None)
       \/ (result.name = "" /\ result.error # None)
    /\ result.error = None <=> AllStepsOk

\* C19: when the listing returns stderr, backup() returns the error about the
\* server directory, the session has been closed once, and no delete command
\* was issued in the cycle.
C19_ListingFailure ==
  Did("ls", "stderr") =>
    /\ ~Called("rm")
    /\ "rm" \notin {stack[i] : i \in 1..Len(stack)}
    /\ BackupLeft =>
         /\ result = [name |-> "", error |-> ListingError]
         /\ Count("ssh.close") = 1
         /\ ssh = "closed"

C19_Witness ==
  /\ Did("ls", "stderr")
  /\ BackupReturned
  /\ trace = << <<"connect", "ok">>, <<"ls", "stderr">>, <<"ssh.close", "ok">> >>

\* C13: when the backup directory is missing or cannot be listed, check_local
\* returns an error and the cycle does not run the backup.
C13_UnreadableDirectoryIsError ==
  (JustChecked /\ backup_dir \in {"missing", "denied"}) => local_error # None

\* no work step of the cycle ended by an exception backup() does not catch
NoStepRaised ==
  \A i \in 1..Len(trace) :
    IsWork(trace[i]) => trace[i][2] \in {"ok", "stderr", "fail"}

\* C12: a delete command that fails, by stderr or by not being executed,
\* leaves the outcome of backup() as it was: the name and no error after a
\* cycle whose steps all succeeded, the error of the failed step otherwise,
\* and the session closed.
C12_CleanupFailureIgnored ==
  (BackupLeft /\ NoStepRaised /\ (Did("rm", "stderr") \/ Did("rm", "SSHException"))) =>
    /\ BackupReturned
    /\ ssh = "closed"
    /\ AllStepsOk => result = [name |-> bname, error |-> None]
    /\ ~AllStepsOk => (result.name = "" /\ result.error # None)

\* C16: when a cycle that computed an archive name is left and the delete
\* command was sent and did not fail, the remote archive no longer exists.
C16_RemoteCopyGone ==
  (BackupLeft /\ Called("rm") /\ ~Did("rm", "stderr") /\ ~Did("rm", "SSHException")) =>
    remote_archive = "absent"

\* C17: the path the transfer fetches and the path the delete removes are the
\* path the archive command wrote in the same cycle.
C17_SameRemoteFile ==
  /\ Called("scp.get") => paths.get = paths.tar
  /\ (Called("rm") /\ Called("tar")) => paths.rm = paths.tar

BackupPcs == {"backup", "connect", "listing", "register", "before", "tar", "after",
              "scp", "get", "unwind"}

\* C20 as stated: the size of the backup directory never decreases by a step
\* of the agent, and after a quota error no backup is started again.
C20_SizeNeverShrinks ==
  [][size' >= size /\ (quota_hit # -1 => pc' \notin BackupPcs)]_vars

\* C20 amended: once check_local has returned the quota error the agent does
\* not change the backup directory any more, every later check_local returns
\* an error, backup() is not called again and every later sleep is given
\* error_iteration_time.
C20_QuotaErrorIsFinal ==
  quota_hit # -1 =>
    /\ backup_dir = "ok"
    /\ size = quota_hit
    /\ size >= config.backup_allowed_gigabytes
    /\ pc \notin BackupPcs
    /\ local_error \in {QuotaError, ReadError}
    /\ trace = <<>>
    /\ ~BackupReturned
    /\ pc = "check" => slept = "error_iteration_time"

C20_Witness ==
  /\ quota_hit # -1
  /\ latest.size > 0
  /\ local_error = ReadError
  /\ pc = "check"
  /\ slept = "error_iteration_time"
====
